---------------------------- MODULE Spec2Model ----------------------------
(***************************************************************************)
(* Model of convert_notebooks.py: convert_notebook_paths rewrites one      *)
(* notebook file in place, convert_all_notebooks walks a directory tree    *)
(* and converts every file whose name ends with ".ipynb".                  *)
(*                                                                         *)
(* A Python str is a sequence of tokens.  The tokens are chosen so that a  *)
(* substring test or a replace on the concatenated text matches exactly on *)
(* token boundaries: in the old paths and the mount triggers "/" and "."   *)
(* are tokens of their own, and their words ("content", "drive",           *)
(* "MyDrive", ...) occur in no other token.  The three text tokens of      *)
(* BOREALIS_CODE stand for its 108 lines, which hold no old path and no    *)
(* mount trigger.                                                          *)
(***************************************************************************)
EXTENDS Naturals, Sequences, FiniteSets, TLC

\* ------------------------------------------------------------------ bounds
MaxSegs  == 3   \* segments concatenated into one generated line
MaxLines == 3   \* lines of a generated multi-line source
MaxCells == 2   \* cells of a generated multi-cell document
MaxCalls == 2   \* direct calls of convert_notebook_paths on the same file

\* ------------------------------------------------------- strings of Python
NL == "\n"

\* sub in s
Contains(s, sub) ==
    \E i \in 0..(Len(s) - Len(sub)) : SubSeq(s, i + 1, i + Len(sub)) = sub

\* s.endswith(suffix)
EndsWith(s, suffix) ==
    /\ Len(s) >= Len(suffix)
    /\ SubSeq(s, Len(s) - Len(suffix) + 1, Len(s)) = suffix

\* s.replace(old, new): the occurrences of old are found left to right, each
\* search resuming after the previous occurrence; the text that replaces an
\* occurrence is not searched again.  old is never empty here.
RECURSIVE StrReplace(_, _, _)
StrReplace(s, old, new) ==
    IF Len(s) < Len(old) THEN s
    ELSE IF SubSeq(s, 1, Len(old)) = old
         THEN new \o StrReplace(SubSeq(s, Len(old) + 1, Len(s)), old, new)
         ELSE <<Head(s)>> \o StrReplace(Tail(s), old, new)

\* ------------------------------------------------------ program constants
\* The replacement block: a multi-line text whose last line,
\* print("Borealis dataset initialized ..."), has no line terminator.
BOREALIS_CODE ==
    << "# Borealis API configuration", NL,
       "import requests (and the helper functions)", NL,
       "print(\"Borealis dataset initialized for animal notebook data.\")" >>

DrivePrefix      == << "/", "content", "/", "drive", "/" >>
SharedMyDrive    == DrivePrefix \o << "MyDrive", "/", "shared-data", "/" >>
SharedMy_Drive   == DrivePrefix \o << "My Drive", "/", "shared-data", "/" >>
DatafilesMyDrive  == SharedMyDrive \o << "Notebook datafiles", "/" >>
DatafilesMy_Drive == SharedMy_Drive \o << "Notebook datafiles", "/" >>
LocalPrefix      == << ".", "/" >>

\* Mutant of path_mappings: the entries in the opposite order.
path_mappings_ShortestFirst ==
    << [old_path |-> DrivePrefix,       new_path |-> LocalPrefix],
       [old_path |-> SharedMy_Drive,    new_path |-> LocalPrefix],
       [old_path |-> SharedMyDrive,     new_path |-> LocalPrefix],
       [old_path |-> DatafilesMy_Drive, new_path |-> LocalPrefix],
       [old_path |-> DatafilesMyDrive,  new_path |-> LocalPrefix] >>

\* The dict literal, in its insertion order (the order items() iterates in).
path_mappings ==
    << [old_path |-> DatafilesMyDrive,  new_path |-> LocalPrefix],
       [old_path |-> DatafilesMy_Drive, new_path |-> LocalPrefix],
       [old_path |-> SharedMyDrive,     new_path |-> LocalPrefix],
       [old_path |-> SharedMy_Drive,    new_path |-> LocalPrefix],
       [old_path |-> DrivePrefix,       new_path |-> LocalPrefix] >>

ImportTrigger == << "from google.colab import ", "drive" >>
MountTrigger  == << "drive", ".", "mount(" >>

\* 'from google.colab import drive' in line or 'drive.mount(' in line
IsMountLine(line) == Contains(line, ImportTrigger) \/ Contains(line, MountTrigger)

\* ------------------------------------------------- the per-line transform
\* for old_path, new_path in path_mappings.items():
\*     if old_path in line: line = line.replace(old_path, new_path)
\* from entry k of `table` on.
RECURSIVE ReplacePathsFrom(_, _, _)
ReplacePathsFrom(line, table, k) ==
    IF k > Len(table) THEN line
    ELSE ReplacePathsFrom(
            IF Contains(line, table[k].old_path)
            THEN StrReplace(line, table[k].old_path, table[k].new_path)
            ELSE line,
            table, k + 1)

ReplacePaths(line) == ReplacePathsFrom(line, path_mappings, 1)

\* Mutant of ScanLine: skip_mount is never set, every mount line is replaced
\* by a block.
ScanLineNoFlag(st, line) ==
    IF IsMountLine(line)
    THEN [st EXCEPT !.new_source = Append(@, BOREALIS_CODE)]
    ELSE [st EXCEPT !.new_source = Append(@, ReplacePaths(line))]

\* Mutant of ScanLine: the `continue` is missing, a mount line is rewritten
\* and kept after the block.
ScanLineNoContinue(st, line) ==
    LET st1 == IF IsMountLine(line) /\ ~st.skip_mount
               THEN [new_source |-> Append(st.new_source, BOREALIS_CODE),
                     skip_mount |-> TRUE]
               ELSE st
    IN [st1 EXCEPT !.new_source = Append(@, ReplacePaths(line))]

\* One iteration of `for line in source_lines`, on the loop state
\* st = [new_source, skip_mount].
ScanLine(st, line) ==
    IF IsMountLine(line)
    THEN IF ~st.skip_mount
         THEN [new_source |-> Append(st.new_source, BOREALIS_CODE),
               skip_mount |-> TRUE]
         ELSE st
    ELSE [st EXCEPT !.new_source = Append(@, ReplacePaths(line))]

\* The whole loop over source_lines[i..], from loop state st.
RECURSIVE ScanLines(_, _, _)
ScanLines(source_lines, i, st) ==
    IF i > Len(source_lines) THEN st
    ELSE ScanLines(source_lines, i + 1, ScanLine(st, source_lines[i]))

\* new_source for the normalised source_lines of one code cell.
NewSource(source_lines) ==
    ScanLines(source_lines, 1, [new_source |-> << >>, skip_mount |-> FALSE]).new_source


\* ------------------------------------------------------ notebook documents
\* A cell's source is a str or a list of str (a tagged value).
StrSource(s)   == [kind |-> "str",  text |-> s,     items |-> << >>]
ListSource(ls) == [kind |-> "list", text |-> << >>, items |-> ls]

\* source_lines = cell['source']
\* if isinstance(source_lines, str): source_lines = [source_lines]
SourceLines(source) ==
    IF source.kind = "str" THEN << source.text >> ELSE source.items

\* Mutant of ConvertCell: the test of cell_type is missing, every cell is
\* rewritten.
ConvertCellAnyType(cell) ==
    IF "cell_type" \notin DOMAIN cell
    THEN [exc |-> "KeyError: 'cell_type'", cell |-> cell]
    ELSE IF "source" \notin DOMAIN cell
    THEN [exc |-> "KeyError: 'source'", cell |-> cell]
    ELSE [exc  |-> "",
          cell |-> [cell EXCEPT
                      !.source = ListSource(NewSource(SourceLines(cell.source)))]]

\* Mutant of ConvertCell: the source is stored only when the scan changed it.
ConvertCellOnlyIfChanged(cell) ==
    IF "cell_type" \notin DOMAIN cell
    THEN [exc |-> "KeyError: 'cell_type'", cell |-> cell]
    ELSE IF cell.cell_type = "code"
    THEN IF "source" \notin DOMAIN cell
         THEN [exc |-> "KeyError: 'source'", cell |-> cell]
         ELSE LET new_source == NewSource(SourceLines(cell.source)) IN
              [exc  |-> "",
               cell |-> IF new_source = SourceLines(cell.source) THEN cell
                        ELSE [cell EXCEPT !.source = ListSource(new_source)]]
    ELSE [exc |-> "", cell |-> cell]

\* The body of `for cell in notebook['cells']` for one cell: the exception it
\* raises ("" for none) and the cell as it is left.
ConvertCell(cell) ==
    IF "cell_type" \notin DOMAIN cell
    THEN [exc |-> "KeyError: 'cell_type'", cell |-> cell]
    ELSE IF cell.cell_type = "code"
    THEN IF "source" \notin DOMAIN cell
         THEN [exc |-> "KeyError: 'source'", cell |-> cell]
         ELSE [exc  |-> "",
               cell |-> [cell EXCEPT
                           !.source = ListSource(NewSource(SourceLines(cell.source)))]]
    ELSE [exc |-> "", cell |-> cell]

\* The loop over cells[i..]: cells are processed in order and the first
\* exception leaves the loop.
RECURSIVE ConvertCells(_, _)
ConvertCells(cells, i) ==
    IF i > Len(cells) THEN [exc |-> "", cells |-> cells]
    ELSE LET r == ConvertCell(cells[i]) IN
         IF r.exc # "" THEN [exc |-> r.exc, cells |-> cells]
         ELSE ConvertCells([cells EXCEPT ![i] = r.cell], i + 1)

\* ------------------------------------------------------------------- files
\* A file is its text: JSON text (the document it denotes and the layout it
\* is written in), or text that is no JSON document.
NoDoc == [none |-> TRUE]
JsonFile(layout, doc) == [kind |-> "json", layout |-> layout, doc |-> doc]
GarbageFile   == [kind |-> "garbage",   layout |-> "none", doc |-> NoDoc]
\* What open(path, 'w') followed by a failed write leaves: an empty file or a
\* prefix of the JSON text, neither of which is a JSON document.
TruncatedFile == [kind |-> "truncated", layout |-> "none", doc |-> NoDoc]

\* json.load(f)
JsonLoad(file) ==
    IF file.kind = "json" THEN [exc |-> "", doc |-> file.doc]
    ELSE [exc |-> "JSONDecodeError", doc |-> NoDoc]

\* Mutant of JsonDump: only the cells are written.
JsonDumpCellsOnly(doc) == JsonFile("indent2", [cells |-> doc.cells])

\* json.dump(notebook, f, indent=2)
JsonDump(doc) == JsonFile("indent2", doc)

IOOutcomes == {"ok", "read_error", "write_error"}

\* Mutant of convert_notebook_paths: the file is opened for writing before
\* the cells are transformed.
convert_notebook_paths_OpenFirst(file, io) ==
    IF io = "read_error" THEN [file |-> file, result |-> "OSError"]
    ELSE LET loaded == JsonLoad(file) IN
    IF loaded.exc # "" THEN [file |-> file, result |-> loaded.exc]
    ELSE LET notebook == loaded.doc IN
    IF "cells" \notin DOMAIN notebook
    THEN [file |-> TruncatedFile, result |-> "KeyError: 'cells'"]
    ELSE LET r == ConvertCells(notebook.cells, 1) IN
    IF r.exc # "" THEN [file |-> TruncatedFile, result |-> r.exc]
    ELSE IF io = "write_error"
    THEN [file |-> TruncatedFile, result |-> "OSError"]
    ELSE [file   |-> JsonDump([notebook EXCEPT !.cells = r.cells]),
          result |-> "True"]

\* convert_notebook_paths(notebook_path) on a file, with what the filesystem
\* does (io): the file afterwards and the result, "True" or the exception
\* that propagates.
convert_notebook_paths(file, io) ==
    IF io = "read_error" THEN [file |-> file, result |-> "OSError"]
    ELSE LET loaded == JsonLoad(file) IN
    IF loaded.exc # "" THEN [file |-> file, result |-> loaded.exc]
    ELSE LET notebook == loaded.doc IN
    IF "cells" \notin DOMAIN notebook
    THEN [file |-> file, result |-> "KeyError: 'cells'"]
    ELSE LET r == ConvertCells(notebook.cells, 1) IN
    IF r.exc # "" THEN [file |-> file, result |-> r.exc]
    ELSE IF io = "write_error"
    THEN [file |-> TruncatedFile, result |-> "OSError"]
    ELSE [file   |-> JsonDump([notebook EXCEPT !.cells = r.cells]),
          result |-> "True"]

\* ---------------------------------------------------------- the file tree
IPYNB == << ".ipynb" >>

test_dir == << "test_dir" >>

\* os.path.join(root, file)
PathJoin(root, file) == root \o << "/" >> \o file

SubDir == PathJoin(test_dir, << "sub" >>)

\* The tree under test_dir: for each directory, the names of its files and
\* of its subdirectories.
Tree ==
    (test_dir :> [files |-> { << "a", ".ipynb" >>, << "notes", ".ipynb", ".txt" >> },
                  dirs  |-> { << "sub" >> }])
    @@ (SubDir :> [files |-> { << "b", ".ipynb" >>, << "c", ".ipynb" >> },
                   dirs  |-> { }])

\* The paths of all files under test_dir.
AllPaths == UNION { { PathJoin(d, f) : f \in Tree[d].files } : d \in DOMAIN Tree }

\* The orders in which a directory listing can come: every sequence that
\* holds each name of S once.
Orders(S) ==
    { o \in [1..Cardinality(S) -> S] : \A x \in S : \E i \in DOMAIN o : o[i] = x }

\* Mutant of IsNotebookName: '.ipynb' in file
IsNotebookNameAnywhere(file) == Contains(file, IPYNB)

\* file.endswith('.ipynb')
IsNotebookName(file) == EndsWith(file, IPYNB)

\* f"ERROR: Failed to convert {notebook_path}: {str(e)}"
ErrorMessage(notebook_path, e) ==
    << "ERROR: Failed to convert " >> \o notebook_path \o << ": ", e >>

\* ------------------------------------------------------------------ inputs
Segs ==
    { DatafilesMyDrive, DatafilesMy_Drive, SharedMyDrive, DrivePrefix,
      Tail(DatafilesMyDrive), Tail(DrivePrefix), LocalPrefix,
      << "foo.csv" >>, << NL >>, ImportTrigger, MountTrigger }

\* The lines made of at most n segments.
RECURSIVE LinesOf(_)
LinesOf(n) ==
    IF n = 0 THEN { << >> }
    ELSE LET shorter == LinesOf(n - 1) IN
         shorter \cup { l \o g : l \in shorter, g \in Segs }

RichLines == LinesOf(MaxSegs)

ImportLine == ImportTrigger \o << NL >>
MountLine  == MountTrigger \o << "'", "/", "content", "/", "drive", "'", ")", NL >>
ReadLine   == << "df = read(", "'" >> \o DatafilesMyDrive \o << "foo.csv", "'", ")", NL >>
PlainLine  == << "x = 1", NL >>
LastLine   == << "x = 1" >>

SimpleLines == { ImportLine, MountLine, ReadLine, PlainLine, LastLine, BOREALIS_CODE }

\* The sequences of at most n lines of SimpleLines.
RECURSIVE SourcesOf(_)
SourcesOf(n) ==
    IF n = 0 THEN { << >> }
    ELSE LET shorter == SourcesOf(n - 1) IN
         shorter \cup { Append(ls, l) : ls \in shorter, l \in SimpleLines }

RECURSIVE Join(_)
Join(ls) == IF ls = << >> THEN << >> ELSE Head(ls) \o Join(Tail(ls))

Sources ==
    { ListSource(ls) : ls \in SourcesOf(MaxLines) }
    \cup { StrSource(Join(ls)) : ls \in SourcesOf(MaxLines) }
    \cup { ListSource(<< l >>) : l \in RichLines }

Cell(type, source) == [cell_type |-> type, source |-> source, metadata |-> "m"]

SmallCells ==
    { Cell("code", ListSource(<< ImportLine, MountLine, ReadLine >>)),
      Cell("code", StrSource(PlainLine)),
      Cell("markdown", StrSource(MountLine \o ReadLine)),
      Cell("markdown", ListSource(<< ImportLine, ReadLine >>)),
      [cell_type |-> "markdown", metadata |-> "m"],
      [cell_type |-> "code", metadata |-> "m"],
      [source |-> ListSource(<< PlainLine >>), metadata |-> "m"] }

\* The sequences of at most n cells of SmallCells.
RECURSIVE CellsOf(_)
CellsOf(n) ==
    IF n = 0 THEN { << >> }
    ELSE LET shorter == CellsOf(n - 1) IN
         shorter \cup { Append(cs, c) : cs \in shorter, c \in SmallCells }

Notebook(cells) == [cells |-> cells, metadata |-> "kernelspec", nbformat |-> 4]

Documents ==
    { Notebook(<< Cell("code", src) >>) : src \in Sources }
    \cup { Notebook(cs) : cs \in CellsOf(MaxCells) }
    \cup { [metadata |-> "kernelspec", nbformat |-> 4] }

Layouts == { "indent1", "indent2" }

Files == { JsonFile(l, d) : l \in Layouts, d \in Documents } \cup { GarbageFile }

\* The files of the batch runs: a notebook with mount lines and a markdown
\* cell, one with nothing to rewrite, and three that cannot be converted.
BatchFiles ==
    { JsonFile("indent1",
               Notebook(<< Cell("markdown", StrSource(MountLine)),
                           Cell("code", ListSource(<< ImportLine, MountLine, ReadLine >>)) >>)),
      JsonFile("indent2", Notebook(<< Cell("code", ListSource(<< PlainLine >>)) >>)),
      JsonFile("indent2",
               Notebook(<< Cell("code", ListSource(<< ImportLine, PlainLine >>)),
                           [cell_type |-> "code", metadata |-> "m"] >>)),
      JsonFile("indent2", [metadata |-> "kernelspec", nbformat |-> 4]),
      GarbageFile }

\* ------------------------------------------------------------------- state
VARIABLES
    disk,                 \* path -> file: the files as they are now
    disk0,                \* path -> file: the files as they were before the run
    pc,                   \* "start", "walking" or "done" (convert_all_notebooks)
    stack,                \* os.walk: the directories still to list
    root,                 \* os.walk: the directory being listed
    files,                \* os.walk: the names of root not yet visited
    converted_notebooks,  \* convert_all_notebooks: the paths converted
    errors,               \* convert_all_notebooks: the messages of the failures
    result,               \* what the last direct call returned or raised
    calls                 \* the direct calls made so far

vars == << disk, disk0, pc, stack, root, files, converted_notebooks, errors,
           result, calls >>

\* ---------------------------------------------- convert_all_notebooks(test_dir)
InitBatch ==
    /\ disk \in [AllPaths -> BatchFiles]
    /\ disk0 = disk
    /\ pc = "start"
    /\ stack = << >>
    /\ root = << >>
    /\ files = << >>
    /\ converted_notebooks = << >>
    /\ errors = << >>
    /\ result = "none"
    /\ calls = 0

\* converted_notebooks = []; errors = []; os.walk(test_dir) starts
Call ==
    /\ pc = "start"
    /\ pc' = "walking"
    /\ stack' = << test_dir >>
    /\ converted_notebooks' = << >>
    /\ errors' = << >>
    /\ UNCHANGED << disk, disk0, root, files, result, calls >>

\* for root, dirs, files in os.walk(test_dir): the next directory, top down;
\* its files and its subdirectories come in any order.
WalkDir ==
    /\ pc = "walking"
    /\ files = << >>
    /\ stack # << >>
    /\ root' = Head(stack)
    /\ \E fs \in Orders(Tree[Head(stack)].files) : files' = fs
    /\ \E ds \in Orders(Tree[Head(stack)].dirs) :
          stack' = [i \in 1..Len(ds) |-> PathJoin(Head(stack), ds[i])] \o Tail(stack)
    /\ UNCHANGED << disk, disk0, pc, converted_notebooks, errors, result, calls >>

\* Mutant of VisitFile: without the try/except the exception of a conversion
\* leaves convert_all_notebooks.
VisitFileNoExcept ==
    /\ pc = "walking"
    /\ files # << >>
    /\ files' = Tail(files)
    /\ LET file == Head(files)
           notebook_path == PathJoin(root, file)
       IN IF IsNotebookName(file)
          THEN \E io \in IOOutcomes :
                 LET r == convert_notebook_paths(disk[notebook_path], io) IN
                 /\ disk' = [disk EXCEPT ![notebook_path] = r.file]
                 /\ errors' = errors
                 /\ IF r.result = "True"
                    THEN /\ converted_notebooks' = Append(converted_notebooks, notebook_path)
                         /\ pc' = pc
                    ELSE /\ converted_notebooks' = converted_notebooks
                         /\ pc' = "raised"
          ELSE UNCHANGED << disk, converted_notebooks, errors, pc >>
    /\ UNCHANGED << disk0, stack, root, result, calls >>

\* for file in files: one iteration, the try/except around the conversion
\* included.
VisitFile ==
    /\ pc = "walking"
    /\ files # << >>
    /\ files' = Tail(files)
    /\ LET file == Head(files)
           notebook_path == PathJoin(root, file)
       IN IF IsNotebookName(file)
          THEN \E io \in IOOutcomes :
                 LET r == convert_notebook_paths(disk[notebook_path], io) IN
                 /\ disk' = [disk EXCEPT ![notebook_path] = r.file]
                 /\ IF r.result = "True"
                    THEN /\ converted_notebooks' = Append(converted_notebooks, notebook_path)
                         /\ errors' = errors
                    ELSE /\ errors' = Append(errors, ErrorMessage(notebook_path, r.result))
                         /\ converted_notebooks' = converted_notebooks
          ELSE UNCHANGED << disk, converted_notebooks, errors >>
    /\ UNCHANGED << disk0, pc, stack, root, result, calls >>

\* return converted_notebooks, errors
Return ==
    /\ pc = "walking"
    /\ files = << >>
    /\ stack = << >>
    /\ pc' = "done"
    /\ UNCHANGED << disk, disk0, stack, root, files, converted_notebooks, errors,
                    result, calls >>

Next == Call \/ WalkDir \/ VisitFile \/ Return

Spec == InitBatch /\ [][Next]_vars

\* ------------------------------------- convert_notebook_paths(notebook_path)
NotebookPath == PathJoin(test_dir, << "a", ".ipynb" >>)

InitDoc ==
    /\ disk \in [{ NotebookPath } -> Files]
    /\ disk0 = disk
    /\ pc = "start"
    /\ stack = << >>
    /\ root = << >>
    /\ files = << >>
    /\ converted_notebooks = << >>
    /\ errors = << >>
    /\ result = "none"
    /\ calls = 0

\* A direct call of convert_notebook_paths(NotebookPath): the caller sees the
\* return value or the exception.
CallConvert ==
    /\ calls < MaxCalls
    /\ \E io \in IOOutcomes :
         LET r == convert_notebook_paths(disk[NotebookPath], io) IN
         /\ disk' = [disk EXCEPT ![NotebookPath] = r.file]
         /\ result' = r.result
    /\ disk0' = disk
    /\ calls' = calls + 1
    /\ UNCHANGED << pc, stack, root, files, converted_notebooks, errors >>

NextDoc == CallConvert

SpecDoc == InitDoc /\ [][NextDoc]_vars

\* ======================================================== properties
\* The file of the last direct call, before and after it.
In  == disk0[NotebookPath]
Out == disk[NotebookPath]
Succeeded == calls > 0 /\ result = "True"

IsCode(cell) == "cell_type" \in DOMAIN cell /\ cell.cell_type = "code"
CellIndexes == 1..Len(In.doc.cells)

\* The lines of ls that are no mount lines, in order.
Kept(ls) == SelectSeq(ls, LAMBDA l : ~IsMountLine(l))
HasMount(ls) == \E i \in DOMAIN ls : IsMountLine(ls[i])
FirstMount(ls) == CHOOSE i \in DOMAIN ls :
                     IsMountLine(ls[i]) /\ \A j \in 1..(i - 1) : ~IsMountLine(ls[j])
Count(ls, x) == Cardinality({ i \in DOMAIN ls : ls[i] = x })
MapReplacePaths(ls) == [i \in DOMAIN ls |-> ReplacePaths(ls[i])]

\* What a cell with source lines ls must become: the rewritten lines that are
\* no mount lines, with one block where the first mount line stood.
ExpectedSource(ls) ==
    LET kept == MapReplacePaths(Kept(ls)) IN
    IF HasMount(ls)
    THEN LET k == Len(Kept(SubSeq(ls, 1, FirstMount(ls) - 1))) IN
         SubSeq(kept, 1, k) \o << BOREALIS_CODE >> \o SubSeq(kept, k + 1, Len(kept))
    ELSE kept

\* C1: after a successful conversion every code cell whose source has a mount
\* line holds exactly one emitted block, standing where the first mount line
\* stood among the surviving lines (every later mount line is dropped with
\* nothing in its place), and a code cell without a mount line has no block
\* emitted: its lines are the rewritten input lines and nothing else.
C1_OneBlockPerCell ==
    Succeeded =>
      \A i \in CellIndexes :
        IsCode(In.doc.cells[i]) =>
          LET ls  == SourceLines(In.doc.cells[i].source)
              new == Out.doc.cells[i].source.items
          IN /\ new = ExpectedSource(ls)
             /\ Count(new, BOREALIS_CODE)
                  = Count(MapReplacePaths(Kept(ls)), BOREALIS_CODE)
                    + (IF HasMount(ls) THEN 1 ELSE 0)

\* C1 witness: a converted cell that had a surviving line, then two mount
\* lines, then another surviving line.
C1_Witness ==
    /\ Succeeded
    /\ \E i \in CellIndexes :
         /\ IsCode(In.doc.cells[i])
         /\ In.doc.cells[i].source.kind = "list"
         /\ LET ls == In.doc.cells[i].source.items IN
            /\ Len(ls) >= 3
            /\ ~IsMountLine(ls[1]) /\ IsMountLine(ls[2]) /\ IsMountLine(ls[3])
            /\ Out.doc.cells[i].source.items = << ReplacePaths(ls[1]), BOREALIS_CODE >>

\* C1 as stated: a cell with a mount line ends with exactly one block in its
\* new source.  A line of the input that already is the block text is no
\* mount line and is kept, so a cell [block, mount line] ends with two.
C1_Original ==
    Succeeded =>
      \A i \in CellIndexes :
        IsCode(In.doc.cells[i]) =>
          LET ls  == SourceLines(In.doc.cells[i].source)
              new == Out.doc.cells[i].source.items
          IN /\ new = ExpectedSource(ls)
             /\ HasMount(ls) => Count(new, BOREALIS_CODE) = 1

\* Where input line j of ls, no mount line, stands in the new source.
OutIndex(ls, j) ==
    Len(Kept(SubSeq(ls, 1, j)))
      + (IF \E i \in 1..(j - 1) : IsMountLine(ls[i]) THEN 1 ELSE 0)

LongestPrefixes == { DatafilesMyDrive, DatafilesMy_Drive }

\* The places of line where the longest prefix p occurs.
Occurrences(line, p) ==
    { i \in 0..(Len(line) - Len(p)) : SubSeq(line, i + 1, i + Len(p)) = p }

\* Every occurrence of a longest prefix in `line` is rewritten whole to "./",
\* the text before it and the text after it being rewritten on their own.
LongestRewrittenWhole(line, new_line) ==
    \A p \in LongestPrefixes : \A i \in Occurrences(line, p) :
       new_line = ReplacePaths(SubSeq(line, 1, i)) \o LocalPrefix
                    \o ReplacePaths(SubSeq(line, i + Len(p) + 1, Len(line)))

\* No occurrence of a table entry in `line` is directly followed by
\* "content/drive/": no two occurrences share their "/" and no replacement
\* joins its "./" to text that completes another old path.
NoChainedPath(line) ==
    \A k \in DOMAIN path_mappings :
       ~Contains(line, path_mappings[k].old_path \o Tail(DrivePrefix))

\* C2 (amended): in every line of a code cell that is no mount line and in
\* which no old path is directly followed by "content/drive/", each occurrence
\* of the longest prefix (either variant) is rewritten whole to "./", never
\* by a shorter table entry.
C2_LongestPrefixFirst ==
    Succeeded =>
      \A i \in CellIndexes :
        IsCode(In.doc.cells[i]) =>
          LET ls  == SourceLines(In.doc.cells[i].source)
              new == Out.doc.cells[i].source.items
          IN \A j \in DOMAIN ls :
               (~IsMountLine(ls[j]) /\ NoChainedPath(ls[j]))
                 => LongestRewrittenWhole(ls[j], new[OutIndex(ls, j)])

\* C2 witness: the line <longest prefix>foo.csv was rewritten to ./foo.csv.
C2_Witness ==
    /\ Succeeded
    /\ In.doc.cells = << Cell("code", ListSource(<< DatafilesMyDrive \o << "foo.csv" >> >>)) >>
    /\ Out.doc.cells[1].source.items = << LocalPrefix \o << "foo.csv" >> >>

\* C2 as stated: the same of every line that is no mount line.
C2_Original ==
    Succeeded =>
      \A i \in CellIndexes :
        IsCode(In.doc.cells[i]) =>
          LET ls  == SourceLines(In.doc.cells[i].source)
              new == Out.doc.cells[i].source.items
          IN \A j \in DOMAIN ls :
               ~IsMountLine(ls[j])
                 => LongestRewrittenWhole(ls[j], new[OutIndex(ls, j)])

\* No line of a code cell of the document of `file` satisfies Bad.
NoCodeLine(file, Bad(_)) ==
    \A i \in DOMAIN file.doc.cells :
       IsCode(file.doc.cells[i]) =>
         \A j \in DOMAIN SourceLines(file.doc.cells[i].source) :
            ~Bad(SourceLines(file.doc.cells[i].source)[j])

HasOldPath(line) ==
    \E k \in DOMAIN path_mappings : Contains(line, path_mappings[k].old_path)

\* C3 (amended): a converted document has no mount line in a code cell, and
\* converting it again changes nothing provided no code cell of it contains
\* an old path.
C3_IdempotentWithoutOldPaths ==
    [][ (calls' = calls + 1 /\ result' = "True")
          => /\ NoCodeLine(Out', IsMountLine)
             /\ (result = "True" /\ NoCodeLine(Out, HasOldPath)) => disk' = disk ]_vars

\* C3 witness: a second successful conversion, of a document that the first
\* one changed.
C3_Witness ==
    /\ calls = 2
    /\ result = "True"
    /\ NoCodeLine(In, HasOldPath)
    /\ Out = In
    /\ \E i \in DOMAIN In.doc.cells :
         /\ IsCode(In.doc.cells[i])
         /\ \E j \in DOMAIN In.doc.cells[i].source.items :
              In.doc.cells[i].source.items[j] = BOREALIS_CODE
         /\ \E j \in DOMAIN In.doc.cells[i].source.items :
              In.doc.cells[i].source.items[j] = ReplacePaths(ReadLine)

\* C3 as stated: converting a converted document again changes nothing.
C3_Original ==
    [][ (calls' = calls + 1 /\ result' = "True" /\ result = "True")
          => disk' = disk ]_vars

\* C4: a successful conversion keeps the number and the order of the cells
\* and leaves every cell that is no code cell as it was, a bare-string source
\* included; a document without code cells is written back as the same
\* document.
C4_NonCodeCellsUntouched ==
    Succeeded =>
      /\ Len(Out.doc.cells) = Len(In.doc.cells)
      /\ \A i \in CellIndexes :
           /\ Out.doc.cells[i].cell_type = In.doc.cells[i].cell_type
           /\ ~IsCode(In.doc.cells[i]) => Out.doc.cells[i] = In.doc.cells[i]
      /\ (\A i \in CellIndexes : ~IsCode(In.doc.cells[i])) => Out.doc = In.doc

\* C4 witness: a converted document whose first cell is a markdown cell with
\* a bare-string source that holds a mount line and an old path, and whose
\* second cell is a code cell that was rewritten.
C4_Witness ==
    /\ Succeeded
    /\ Len(In.doc.cells) = 2
    /\ In.doc.cells[1] = Cell("markdown", StrSource(MountLine \o ReadLine))
    /\ Out.doc.cells[1] = In.doc.cells[1]
    /\ IsCode(In.doc.cells[2])
    /\ Out.doc.cells[2] # In.doc.cells[2]

\* C5 (amended): after a successful conversion the source of every code cell
\* is a list of strings, a bare string having been wrapped.
C5_CodeSourceIsList ==
    Succeeded =>
      \A i \in CellIndexes :
        IsCode(In.doc.cells[i]) =>
          /\ Out.doc.cells[i].source.kind = "list"
          /\ In.doc.cells[i].source.kind = "str"
               => Len(Out.doc.cells[i].source.items) = 1

\* C5 witness: a code cell whose source was the bare string PlainLine now
\* holds the one-element list of it.
C5_Witness ==
    /\ Succeeded
    /\ \E i \in CellIndexes :
         /\ In.doc.cells[i] = Cell("code", StrSource(PlainLine))
         /\ Out.doc.cells[i].source = ListSource(<< PlainLine >>)

\* C5 as stated: after a successful conversion the source of every cell is a
\* list of strings.
C5_Original ==
    Succeeded =>
      \A i \in CellIndexes :
        "source" \in DOMAIN Out.doc.cells[i] => Out.doc.cells[i].source.kind = "list"

\* C6: a successful conversion writes back every top-level field other than
\* 'cells' with the value that was read, and every field of every cell other
\* than the source of a code cell.
C6_OtherFieldsPreserved ==
    Succeeded =>
      /\ DOMAIN Out.doc = DOMAIN In.doc
      /\ \A k \in DOMAIN In.doc \ { "cells" } : Out.doc[k] = In.doc[k]
      /\ \A i \in CellIndexes :
           /\ DOMAIN Out.doc.cells[i] = DOMAIN In.doc.cells[i]
           /\ \A k \in DOMAIN In.doc.cells[i] \ { "source" } :
                Out.doc.cells[i][k] = In.doc.cells[i][k]

\* C6 witness: a file in another layout whose code cell was rewritten, with
\* its metadata and nbformat still there.
C6_Witness ==
    /\ Succeeded
    /\ In.layout = "indent1"
    /\ Out.doc.cells # In.doc.cells
    /\ Out.doc.metadata = "kernelspec"
    /\ Out.doc.nbformat = 4

\* The documents convert_notebook_paths cannot convert: no JSON, no 'cells',
\* a cell without 'cell_type', or a code cell without 'source'.
Malformed(file) ==
    \/ file.kind # "json"
    \/ "cells" \notin DOMAIN file.doc
    \/ \E i \in DOMAIN file.doc.cells :
         \/ "cell_type" \notin DOMAIN file.doc.cells[i]
         \/ /\ file.doc.cells[i].cell_type = "code"
            /\ "source" \notin DOMAIN file.doc.cells[i]

ParseErrors ==
    { "JSONDecodeError", "KeyError: 'cells'", "KeyError: 'cell_type'", "KeyError: 'source'" }

\* C9: a call that fails with a parse or schema error leaves the file with
\* exactly the content it had and hands the exception to the caller; a call
\* on a malformed document always fails, the file untouched.
C9_NoWriteBeforeTransform ==
    calls > 0 =>
      /\ result \in ParseErrors => (Out = In /\ Malformed(In))
      /\ Malformed(In) => (Out = In /\ result \in ParseErrors \cup { "OSError" })

\* C9 witness: the call failed on the second cell, after a first cell with
\* mount lines had been transformed in memory, and the file is as it was.
C9_Witness ==
    /\ calls > 0
    /\ result = "KeyError: 'source'"
    /\ Len(In.doc.cells) = 2
    /\ In.doc.cells[1] = Cell("code", ListSource(<< ImportLine, MountLine, ReadLine >>))
    /\ Out = In

\* Every element of ls but the last ends with a newline.
LinesTerminated(ls) ==
    \A j \in 1..(Len(ls) - 1) : EndsWith(ls[j], << NL >>)

\* C10: when every element but the last of a code cell's source ends with a
\* newline, so does every element but the last of the rebuilt source.
C10_LineEndingsKept ==
    Succeeded =>
      \A i \in CellIndexes :
        (IsCode(In.doc.cells[i]) /\ LinesTerminated(SourceLines(In.doc.cells[i].source)))
          => LinesTerminated(Out.doc.cells[i].source.items)

\* ------------------------------------------------- properties of the batch
\* The notebooks of the tree, told by their names alone.
NotebookPaths == { p \in AllPaths : p[Len(p)] = ".ipynb" }
TxtPath == PathJoin(test_dir, << "notes", ".ipynb", ".txt" >>)

TimesIn(seq, x) == Cardinality({ i \in DOMAIN seq : seq[i] = x })

\* The messages of errors that name path p.
ErrorsNaming(p) ==
    { i \in DOMAIN errors :
        /\ Len(errors[i]) = Len(p) + 3
        /\ SubSeq(errors[i], 1, Len(p) + 2)
             = << "ERROR: Failed to convert " >> \o p \o << ": " >> }

\* C7: when the batch returns, every file whose name ends with ".ipynb" is
\* accounted for exactly once, as a converted path or as one error message,
\* and every other file is as it was and is listed nowhere; a batch without
\* failures lists exactly the three notebooks of the tree.
C7_EachNotebookOnce ==
    pc = "done" =>
      /\ \A p \in NotebookPaths :
           TimesIn(converted_notebooks, p) + Cardinality(ErrorsNaming(p)) = 1
      /\ \A p \in AllPaths \ NotebookPaths :
           /\ disk[p] = disk0[p]
           /\ TimesIn(converted_notebooks, p) = 0
           /\ ErrorsNaming(p) = { }
      /\ Len(converted_notebooks) + Len(errors) = Cardinality(NotebookPaths)
      /\ errors = << >> => Len(converted_notebooks) = 3

\* C7 witness: the batch returned three converted paths, and the .txt file,
\* although it holds a notebook with mount lines, is as it was.
C7_Witness ==
    /\ pc = "done"
    /\ Len(converted_notebooks) = 3
    /\ disk[TxtPath].kind = "json"
    /\ disk[TxtPath].layout = "indent1"
    /\ \A p \in NotebookPaths : disk[p] # disk0[p]

\* The notebooks of the tree that were malformed when the batch started.
MalformedPaths == { p \in NotebookPaths : Malformed(disk0[p]) }
IOFailed == \E i \in DOMAIN errors : errors[i][Len(errors[i])] = "OSError"

\* What C8 says of the state in which the batch returns.
C8_AtReturn ==
    pc = "done" =>
      /\ \A p \in MalformedPaths :
           /\ Cardinality(ErrorsNaming(p)) = 1
           /\ TimesIn(converted_notebooks, p) = 0
      /\ \A p \in NotebookPaths \ MalformedPaths :
           TimesIn(converted_notebooks, p) + Cardinality(ErrorsNaming(p)) = 1
      /\ ~IOFailed =>
           /\ Len(errors) = Cardinality(MalformedPaths)
           /\ Len(converted_notebooks) = Cardinality(NotebookPaths \ MalformedPaths)
           /\ \A p \in NotebookPaths \ MalformedPaths : TimesIn(converted_notebooks, p) = 1

\* The steps the walk still has to take for directory d: its listing, its
\* files and everything below it.
RECURSIVE Weight(_)
Weight(d) ==
    LET subs == { PathJoin(d, n) : n \in Tree[d].dirs }
        RECURSIVE Sum(_)
        Sum(S) == IF S = { } THEN 0
                  ELSE LET x == CHOOSE y \in S : TRUE IN Weight(x) + Sum(S \ { x })
    IN 1 + Cardinality(Tree[d].files) + Sum(subs)

RECURSIVE StackWeight(_)
StackWeight(st) == IF st = << >> THEN 0 ELSE Weight(Head(st)) + StackWeight(Tail(st))

\* The steps left before the batch has returned.
Work == (IF pc = "done" THEN 0 ELSE 1) + Len(files) + StackWeight(stack)

\* The walk can take its next step: the directories still to list are
\* directories of the tree and the names still to visit are files of root.
WalkCanStep ==
    pc = "walking" =>
      /\ \A i \in DOMAIN stack : stack[i] \in DOMAIN Tree
      /\ files # << >> =>
           /\ root \in DOMAIN Tree
           /\ \A i \in DOMAIN files : PathJoin(root, files[i]) \in DOMAIN disk

\* C8: a file that cannot be converted costs exactly one error message naming
\* its path and nothing else: every other notebook is still converted (with
\* one malformed notebook among N and no I/O failure, N-1 paths and 1
\* message), and the walk always runs to its return: no step leaves the walk
\* other than the return, every step of the walk takes one off the steps
\* left, and the walk can always take its next step.
C8_FailureIsolated ==
    /\ [] C8_AtReturn
    /\ [] WalkCanStep
    /\ [][ pc = "walking" => (pc' \in { "walking", "done" } /\ Work' = Work - 1) ]_vars

\* C8 witness: the batch returned with one error, for a malformed notebook
\* that was visited before a notebook that was converted.
C8_Witness ==
    /\ pc = "done"
    /\ Len(errors) = 1
    /\ Len(converted_notebooks) = 2
    /\ Cardinality(MalformedPaths) = 1
    /\ MalformedPaths = { NotebookPath }
    /\ \A i \in DOMAIN converted_notebooks :
         disk[converted_notebooks[i]] # disk0[converted_notebooks[i]]

=============================================================================
